---- MODULE Spec2Model ----
(***************************************************************************)
(* Model of process_icon.py: the command-line entry point and the fixed    *)
(* sequence of imaging calls in create_macos_icon, with the top-level      *)
(* exception handler.  Pixel contents are abstracted; buffer modes, sizes, *)
(* offsets, the crop box of the fit, the order of the calls, the lines     *)
(* printed, the exit code, the output file and the two file handles are    *)
(* modelled.                                                               *)
(***************************************************************************)
EXTENDS Integers, Sequences, FiniteSets, TLC

\* ---------------------------------------------------------------- bounds
\* Source images are MaxDim x MaxDim at most; up to MaxArgs arguments follow
\* the program name.
MaxDim == 4
MaxArgs == 3

\* ------------------------------------------------------ program constants
CANVAS_SIZE == 1024
SHAPE_SIZE == 824
shadow_offset_y == 10
\* radius = SHAPE_SIZE * 0.22 and int(SHAPE_SIZE * 0.98), in hundredths
RadiusPct == 22
ShadowPct == 98
BlurRadius == 15
ShadowAlpha == 160
\* centering = (0.5, 0.5) as the fraction CenterNum / CenterDen
CenterNum == 1
CenterDen == 2
\* the length of sys.argv below which the usage message is printed
MinArgv == 3
ErrorExit == 1

\* PADDING = (CANVAS_SIZE - SHAPE_SIZE) // 2, with the forgotten-halving variant
PaddingNotHalved == CANVAS_SIZE - SHAPE_SIZE
PADDING == (CANVAS_SIZE - SHAPE_SIZE) \div 2

\* radius, in hundredths of a pixel (181.28 -> 18128)
radius100 == SHAPE_SIZE * RadiusPct
\* shadow_size = int(SHAPE_SIZE * 0.98): computed at line 32, used nowhere
shadow_size == (SHAPE_SIZE * ShadowPct) \div 100

\* ------------------------------------------------------------------ state
VARIABLES
    pc,            \* position of the run
    argc,          \* number of arguments after the program name
    srcW, srcH,    \* dimensions of the image stored at the input path
    fault,         \* the call that raises in this run, or "none"
    err,           \* the call whose exception is being handled, or "none"
    stdout,        \* lines printed so far
    exitCode,      \* -1 while running, then the exit status
    io,            \* paths on which file I/O was attempted
    inHandle,      \* handle on the input file: "never", "open", "closed"
    outHandle,     \* handle on the output file
    outFile,       \* file at the output path
    img, mask, content, shadow, final_canvas,   \* the buffers
    trace          \* calls completed so far, in order

vars == <<pc, argc, srcW, srcH, fault, err, stdout, exitCode, io, inHandle,
          outHandle, outFile, img, mask, content, shadow, final_canvas, trace>>

\* The calls of create_macos_icon that can raise, in source order.
Calls == <<"open", "convert", "mask", "fit", "shadow_draw", "blur",
           "new_canvas", "comp_shadow", "comp_content", "save_open",
           "save_write">>

CallSet == {Calls[i] : i \in 1..Len(Calls)}

NoBuffer == [mode |-> "none", w |-> 0, h |-> 0]
NoBox == <<0, 0, 0, 0>>

\* argv includes the program name
argv_len == argc + 1

\* line 64, and the off-by-one variant that counts the program name wrongly
TooFewArgsOffByOne == argv_len < MinArgv - 1
TooFewArgs == argv_len < MinArgv

UsageLine == [kind |-> "usage", arg |-> "none"]
ErrorLine(e) == [kind |-> "error", arg |-> e]
CreatedLine == [kind |-> "created", arg |-> "output_path"]

\* `except Exception` catches every exception a call raises; the variant
\* catches only the I/O errors of opening a file.
ExceptOnlyOSError(e) == e \in {"open", "save_open"}
ExceptClause(e) == e \in CallSet

\* Program order of create_macos_icon (lines 16..57), with two variants:
\* the message printed before the save, and the content composited first.
SuccPrintBeforeSave(p) ==
    CASE p = "comp_content" -> "print_ok"
      [] p = "print_ok" -> "save_open"
      [] p = "save_write" -> "return"
      [] p = "open" -> "convert"
      [] p = "convert" -> "mask"
      [] p = "mask" -> "fit"
      [] p = "fit" -> "shadow_draw"
      [] p = "shadow_draw" -> "blur"
      [] p = "blur" -> "new_canvas"
      [] p = "new_canvas" -> "comp_shadow"
      [] p = "comp_shadow" -> "comp_content"
      [] p = "save_open" -> "save_write"
      [] OTHER -> "return"

SuccContentFirst(p) ==
    CASE p = "new_canvas" -> "comp_content"
      [] p = "comp_content" -> "comp_shadow"
      [] p = "comp_shadow" -> "save_open"
      [] p = "open" -> "convert"
      [] p = "convert" -> "mask"
      [] p = "mask" -> "fit"
      [] p = "fit" -> "shadow_draw"
      [] p = "shadow_draw" -> "blur"
      [] p = "blur" -> "new_canvas"
      [] p = "save_open" -> "save_write"
      [] p = "save_write" -> "print_ok"
      [] OTHER -> "return"

Succ(p) ==
    CASE p = "open" -> "convert"
      [] p = "convert" -> "mask"
      [] p = "mask" -> "fit"
      [] p = "fit" -> "shadow_draw"
      [] p = "shadow_draw" -> "blur"
      [] p = "blur" -> "new_canvas"
      [] p = "new_canvas" -> "comp_shadow"
      [] p = "comp_shadow" -> "comp_content"
      [] p = "comp_content" -> "save_open"
      [] p = "save_open" -> "save_write"
      [] p = "save_write" -> "print_ok"
      [] OTHER -> "return"

Init ==
    /\ pc = "main"
    /\ argc \in 0..MaxArgs
    /\ srcW \in 1..MaxDim
    /\ srcH \in 1..MaxDim
    /\ fault \in CallSet \cup {"none"}
    /\ err = "none"
    /\ stdout = <<>>
    /\ exitCode = -1
    /\ io = {}
    /\ inHandle = "never"
    /\ outHandle = "never"
    /\ outFile \in {[state |-> st, mode |-> "none", w |-> 0, h |-> 0, created |-> FALSE] :
                      st \in {"absent", "old"}}
    /\ img = NoBuffer
    /\ mask = [mode |-> "none", w |-> 0, h |-> 0, rect |-> NoBox, radius100 |-> 0]
    /\ content = [mode |-> "none", w |-> 0, h |-> 0, crop2 |-> NoBox, alpha |-> "none"]
    /\ shadow = [mode |-> "none", w |-> 0, h |-> 0, rect |-> NoBox,
                 radius100 |-> 0, alpha |-> 0, blurred |-> FALSE, blur |-> 0]
    /\ final_canvas = [mode |-> "none", w |-> 0, h |-> 0, layers |-> <<>>]
    /\ trace = <<>>

\* A handle still open when the process ends is closed by the system.
AtExit(hd) == IF hd = "open" THEN "closed" ELSE hd

\* lines 63-68: the entry point
Main ==
    /\ pc = "main"
    /\ IF TooFewArgs
         THEN /\ stdout' = Append(stdout, UsageLine)
              /\ exitCode' = ErrorExit
              /\ pc' = "terminated"
         ELSE /\ pc' = "open"
              /\ UNCHANGED <<stdout, exitCode>>
    /\ UNCHANGED <<argc, srcW, srcH, fault, err, io, inHandle, outHandle,
                   outFile, img, mask, content, shadow, final_canvas, trace>>

\* An exception leaves the try body for the handler at line 59.
Raise(e) ==
    /\ pc' = "handler"
    /\ err' = e

Done(p) ==
    /\ pc' = Succ(p)
    /\ trace' = Append(trace, p)
    /\ err' = err

\* line 16, Image.open: opens the input file; a missing or unreadable file
\* or an unknown format raises and leaves no handle behind.
Open ==
    /\ pc = "open"
    /\ io' = io \cup {"input"}
    /\ IF fault = "open"
         THEN Raise("open") /\ UNCHANGED <<inHandle, trace>>
         ELSE Done("open") /\ inHandle' = "open"
    /\ UNCHANGED <<argc, srcW, srcH, fault, stdout, exitCode, outHandle,
                   outFile, img, mask, content, shadow, final_canvas>>

\* line 16, .convert("RGBA"): decodes the pixels into a fresh RGBA buffer.
\* The program never closes the file itself: the library closes it after
\* loading a single-frame file and keeps it for a multi-frame one, so the
\* handle is either closed or still open when the call returns.  When the
\* decoding raises, the handle stays with the image held by the exception.
Convert ==
    /\ pc = "convert"
    /\ IF fault = "convert"
         THEN Raise("convert") /\ UNCHANGED <<inHandle, img, trace>>
         ELSE /\ Done("convert")
              /\ img' = [mode |-> "RGBA", w |-> srcW, h |-> srcH]
              /\ inHandle' \in {"open", "closed"}
    /\ UNCHANGED <<argc, srcW, srcH, fault, stdout, exitCode, io, outHandle,
                   outFile, mask, content, shadow, final_canvas>>

\* line 16: the object returned by Image.open is bound to no name; once
\* convert has returned, the runtime may reclaim it, and its file with it,
\* at any later moment.
Finalize ==
    /\ inHandle = "open"
    /\ img.mode # "none"
    /\ pc # "terminated"
    /\ inHandle' = "closed"
    /\ UNCHANGED <<pc, argc, srcW, srcH, fault, err, stdout, exitCode, io,
                   outHandle, outFile, img, mask, content, shadow,
                   final_canvas, trace>>

\* lines 19-24: the single-channel mask with the filled rounded rectangle
Mask ==
    /\ pc = "mask"
    /\ IF fault = "mask"
         THEN Raise("mask") /\ UNCHANGED <<mask, trace>>
         ELSE /\ Done("mask")
              /\ mask' = [mode |-> "L", w |-> SHAPE_SIZE, h |-> SHAPE_SIZE,
                          rect |-> <<0, 0, SHAPE_SIZE, SHAPE_SIZE>>,
                          radius100 |-> radius100]
    /\ UNCHANGED <<argc, srcW, srcH, fault, stdout, exitCode, io, inHandle,
                   outHandle, outFile, img, content, shadow, final_canvas>>

\* ImageOps.fit(image, size, centering) as called at line 27: the crop box
\* of the cover-and-centre-crop, in half pixels (the library computes it in
\* floating point and hands it to resize as a fractional box).  The variant
\* truncates the left and top edges to whole pixels.
FitBoxTruncated(w, h, tw, th) ==
    LET cropW2 == IF w * th > tw * h THEN (2 * tw * h) \div th ELSE 2 * w
        cropH2 == IF w * th < tw * h THEN (2 * w * th) \div tw ELSE 2 * h
        left2 == 2 * ((((2 * w - cropW2) * CenterNum) \div CenterDen) \div 2)
        top2 == 2 * ((((2 * h - cropH2) * CenterNum) \div CenterDen) \div 2)
    IN  <<left2, top2, left2 + cropW2, top2 + cropH2>>

FitBox(w, h, tw, th) ==
    LET cropW2 == IF w * th > tw * h THEN (2 * tw * h) \div th ELSE 2 * w
        cropH2 == IF w * th < tw * h THEN (2 * w * th) \div tw ELSE 2 * h
        left2 == ((2 * w - cropW2) * CenterNum) \div CenterDen
        top2 == ((2 * h - cropH2) * CenterNum) \div CenterDen
    IN  <<left2, top2, left2 + cropW2, top2 + cropH2>>

\* lines 27-28: fit the source to the shape size, then replace its alpha by
\* the mask; putalpha raises when the mask and the image differ in size.
Fit ==
    /\ pc = "fit"
    /\ IF fault = "fit" \/ mask.w # SHAPE_SIZE \/ mask.h # SHAPE_SIZE
         THEN Raise("fit") /\ UNCHANGED <<content, trace>>
         ELSE /\ Done("fit")
              /\ content' = [mode |-> img.mode, w |-> SHAPE_SIZE, h |-> SHAPE_SIZE,
                             crop2 |-> FitBox(img.w, img.h, SHAPE_SIZE, SHAPE_SIZE),
                             alpha |-> "mask"]
    /\ UNCHANGED <<argc, srcW, srcH, fault, stdout, exitCode, io, inHandle,
                   outHandle, outFile, img, mask, shadow, final_canvas>>

\* lines 38-41: the rectangle the shadow is drawn in
shadow_rect ==
    <<PADDING, PADDING + shadow_offset_y,
      PADDING + SHAPE_SIZE, PADDING + SHAPE_SIZE + shadow_offset_y>>

\* lines 32-45: the shadow canvas and the rounded rectangle drawn on it
ShadowDraw ==
    /\ pc = "shadow_draw"
    /\ IF fault = "shadow_draw"
         THEN Raise("shadow_draw") /\ UNCHANGED <<shadow, trace>>
         ELSE /\ Done("shadow_draw")
              /\ shadow' = [mode |-> "RGBA", w |-> CANVAS_SIZE, h |-> CANVAS_SIZE,
                            rect |-> shadow_rect, radius100 |-> radius100,
                            alpha |-> ShadowAlpha, blurred |-> FALSE, blur |-> 0]
    /\ UNCHANGED <<argc, srcW, srcH, fault, stdout, exitCode, io, inHandle,
                   outHandle, outFile, img, mask, content, final_canvas>>

\* line 48: the blur returns a buffer of the same mode and size
Blur ==
    /\ pc = "blur"
    /\ IF fault = "blur"
         THEN Raise("blur") /\ UNCHANGED <<shadow, trace>>
         ELSE /\ Done("blur")
              /\ shadow' = [shadow EXCEPT !.blurred = TRUE, !.blur = BlurRadius]
    /\ UNCHANGED <<argc, srcW, srcH, fault, stdout, exitCode, io, inHandle,
                   outHandle, outFile, img, mask, content, final_canvas>>

\* The size of the final canvas (line 51), and the variant that sizes it
\* after the content layer.
FinalSizeShape == <<SHAPE_SIZE, SHAPE_SIZE>>
FinalSize == <<CANVAS_SIZE, CANVAS_SIZE>>

\* line 51: the transparent final canvas
NewCanvas ==
    /\ pc = "new_canvas"
    /\ IF fault = "new_canvas"
         THEN Raise("new_canvas") /\ UNCHANGED <<final_canvas, trace>>
         ELSE /\ Done("new_canvas")
              /\ final_canvas' = [mode |-> "RGBA", w |-> FinalSize[1],
                                  h |-> FinalSize[2], layers |-> <<>>]
    /\ UNCHANGED <<argc, srcW, srcH, fault, stdout, exitCode, io, inHandle,
                   outHandle, outFile, img, mask, content, shadow>>

\* Image.alpha_composite(im, dest), in place: both images must be RGBA; the
\* overlay is blended over the region of the canvas at dest and the canvas
\* keeps its mode and size.
CanComposite(canvas, im) == canvas.mode = "RGBA" /\ im.mode = "RGBA"

Composited(canvas, name, im, dest) ==
    [canvas EXCEPT !.layers =
        Append(@, [name |-> name, x |-> dest[1], y |-> dest[2],
                   w |-> im.w, h |-> im.h])]

\* line 52: the shadow, at the origin
CompShadow ==
    /\ pc = "comp_shadow"
    /\ IF fault = "comp_shadow" \/ ~CanComposite(final_canvas, shadow)
         THEN Raise("comp_shadow") /\ UNCHANGED <<final_canvas, trace>>
         ELSE /\ Done("comp_shadow")
              /\ final_canvas' = Composited(final_canvas, "shadow", shadow, <<0, 0>>)
    /\ UNCHANGED <<argc, srcW, srcH, fault, stdout, exitCode, io, inHandle,
                   outHandle, outFile, img, mask, content, shadow>>

\* line 53: the content, at (PADDING, PADDING)
CompContent ==
    /\ pc = "comp_content"
    /\ IF fault = "comp_content" \/ ~CanComposite(final_canvas, content)
         THEN Raise("comp_content") /\ UNCHANGED <<final_canvas, trace>>
         ELSE /\ Done("comp_content")
              /\ final_canvas' = Composited(final_canvas, "content", content,
                                            <<PADDING, PADDING>>)
    /\ UNCHANGED <<argc, srcW, srcH, fault, stdout, exitCode, io, inHandle,
                   outHandle, outFile, img, mask, content, shadow>>

\* line 56: save closes the file it opened whether the writing succeeds
\* (ok) or raises; the variant closes it on success only.
SaveClosesOnSuccessOnly(ok) == IF ok THEN "closed" ELSE "open"
SaveCloses(ok) == "closed"

\* line 56, first half of final_canvas.save(output_path, "PNG"): the output
\* path is opened for writing, which creates or truncates the file.  A bad
\* directory or missing permission raises before the file is touched.
SaveOpen ==
    /\ pc = "save_open"
    /\ io' = io \cup {"output"}
    /\ IF fault = "save_open"
         THEN Raise("save_open") /\ UNCHANGED <<outHandle, outFile, trace>>
         ELSE /\ Done("save_open")
              /\ outHandle' = "open"
              /\ outFile' = [state |-> "partial", mode |-> "none", w |-> 0, h |-> 0,
                             created |-> (outFile.state = "absent")]
    /\ UNCHANGED <<argc, srcW, srcH, fault, stdout, exitCode, inHandle,
                   img, mask, content, shadow, final_canvas>>

\* line 56, second half: the canvas is encoded as PNG and written.  When
\* the writing raises (an encoder error, a full disk), the file is closed;
\* a file this call created is removed by recent versions of the library
\* and left behind by older ones, and a file that existed before stays as
\* far as it was written.
SaveWrite ==
    /\ pc = "save_write"
    /\ IF fault = "save_write"
         THEN /\ Raise("save_write")
              /\ outHandle' = SaveCloses(FALSE)
              /\ \E st \in (IF outFile.created THEN {"absent", "partial"}
                                               ELSE {"partial"}) :
                    outFile' = [outFile EXCEPT !.state = st]
              /\ UNCHANGED trace
         ELSE /\ Done("save_write")
              /\ outHandle' = SaveCloses(TRUE)
              /\ outFile' = [outFile EXCEPT !.state = "complete",
                                            !.mode = final_canvas.mode,
                                            !.w = final_canvas.w,
                                            !.h = final_canvas.h]
    /\ UNCHANGED <<argc, srcW, srcH, fault, stdout, exitCode, io, inHandle,
                   img, mask, content, shadow, final_canvas>>

\* line 57: the success message
PrintOk ==
    /\ pc = "print_ok"
    /\ stdout' = Append(stdout, CreatedLine)
    /\ pc' = Succ("print_ok")
    /\ UNCHANGED <<argc, srcW, srcH, fault, err, exitCode, io, inHandle,
                   outHandle, outFile, img, mask, content, shadow,
                   final_canvas, trace>>

\* create_macos_icon returns, line 68 ends the script: exit status 0
Return ==
    /\ pc = "return"
    /\ exitCode' = 0
    /\ pc' = "terminated"
    /\ inHandle' = AtExit(inHandle)
    /\ outHandle' = AtExit(outHandle)
    /\ UNCHANGED <<argc, srcW, srcH, fault, err, stdout, io, outFile, img,
                   mask, content, shadow, final_canvas, trace>>

\* lines 59-61: the handler prints the one-line message and exits with 1;
\* an exception the except clause does not name ends the run with a
\* traceback instead.
Handler ==
    /\ pc = "handler"
    /\ stdout' = Append(stdout, IF ExceptClause(err)
                                  THEN ErrorLine(err)
                                  ELSE [kind |-> "traceback", arg |-> err])
    /\ exitCode' = ErrorExit
    /\ pc' = "terminated"
    /\ inHandle' = AtExit(inHandle)
    /\ outHandle' = AtExit(outHandle)
    /\ UNCHANGED <<argc, srcW, srcH, fault, err, io, outFile, img, mask,
                   content, shadow, final_canvas, trace>>

Next ==
    \/ Main \/ Open \/ Convert \/ Finalize \/ Mask \/ Fit \/ ShadowDraw
    \/ Blur \/ NewCanvas \/ CompShadow \/ CompContent \/ SaveOpen
    \/ SaveWrite \/ PrintOk \/ Return \/ Handler

Spec == Init /\ [][Next]_vars

\* ------------------------------------------------------------ properties
Printed(l) == \E i \in 1..Len(stdout) : stdout[i] = l

IsPrefix(s, t) == Len(s) <= Len(t) /\ \A i \in 1..Len(s) : s[i] = t[i]

\* C1: with fewer than 2 arguments after the program name the run prints
\* the usage message and exits with 1, and no file I/O is attempted:
\* create_macos_icon is never entered, no handle is opened, the output file
\* stays as it was.
C1_UsageNoFileIO ==
    argc < 2 =>
        /\ pc \in {"main", "terminated"}
        /\ io = {}
        /\ inHandle = "never" /\ outHandle = "never"
        /\ trace = <<>>
        /\ outFile.state \in {"absent", "old"}
        /\ (pc = "terminated" => exitCode = 1 /\ stdout = <<UsageLine>>)

C1_Witness ==
    argc = 1 /\ pc = "terminated" /\ exitCode = 1 /\ stdout = <<UsageLine>>

\* C2: a failure raised by any call of create_macos_icon is caught by the
\* handler: the run prints exactly one line, `Error processing image: ...`
\* for that failure, exits with 1 and never prints the success message.
C2_FailureCaught ==
    /\ (argc >= 2 /\ fault # "none" /\ pc = "terminated") =>
            /\ exitCode = 1
            /\ stdout = <<ErrorLine(fault)>>
    /\ (err # "none") => /\ err = fault
                         /\ ~Printed(CreatedLine)
                         /\ pc \in {"handler", "terminated"}

C2_Witness ==
    /\ pc = "terminated" /\ fault = "blur" /\ exitCode = 1
    /\ stdout = <<ErrorLine("blur")>>

C4_NoPartialOutput ==
    (pc = "terminated" /\ exitCode = 1) => outFile.state \in {"absent", "old"}

\* C5: whatever the width and height of the input, the file a successful
\* run writes is 1024 x 1024 (CANVAS_SIZE x CANVAS_SIZE) in mode RGBA.
C5_OutputSize ==
    outFile.state = "complete" =>
        /\ outFile.w = 1024 /\ outFile.h = 1024
        /\ outFile.w = CANVAS_SIZE /\ outFile.h = CANVAS_SIZE
        /\ outFile.mode = "RGBA"

C5_Witness ==
    /\ pc = "terminated" /\ exitCode = 0 /\ outFile.state = "complete"
    /\ srcW = 1 /\ srcH = 3

\* C6 as stated: each handle is open only inside its own operation (the
\* input handle while loading, the output handle while saving) and is
\* released on every exit path.
C6_HandlesScoped ==
    /\ inHandle = "open" => (pc = "convert" \/ (pc = "handler" /\ err = "convert"))
    /\ outHandle = "open" => pc = "save_write"
    /\ pc = "terminated" => inHandle # "open" /\ outHandle # "open"

\* C6 amended: the output handle is open only inside the save and is closed
\* when the save returns or raises; the input handle is opened by the load
\* and is not closed by the program, so it may stay open during the later
\* calls; no handle outlives the run.
C6_HandlesReleased ==
    /\ outHandle = "open" => pc = "save_write"
    /\ inHandle = "open" => pc \notin {"main", "open", "terminated"}
    /\ inHandle # "never" => "input" \in io
    /\ pc = "terminated" => inHandle # "open" /\ outHandle # "open"

C6_Witness ==
    pc = "handler" /\ err = "save_write" /\ outHandle = "closed"

\* C7: the fit keeps the shorter source dimension whole and removes the
\* excess of the longer one in equal amounts from its two edges, for every
\* width and height; the result is SHAPE_SIZE x SHAPE_SIZE.
C7_CropCentred ==
    content.mode # "none" =>
        LET b == content.crop2 IN
        /\ b[1] = 2 * img.w - b[3]
        /\ b[2] = 2 * img.h - b[4]
        /\ b[1] >= 0 /\ b[2] >= 0
        /\ (img.w <= img.h => b[1] = 0 /\ b[3] = 2 * img.w)
        /\ (img.h <= img.w => b[2] = 0 /\ b[4] = 2 * img.h)
        /\ b[3] - b[1] = b[4] - b[2]
        /\ content.w = SHAPE_SIZE /\ content.h = SHAPE_SIZE

C7_Witness ==
    /\ content.mode = "RGBA" /\ img.w = 3 /\ img.h = 2
    /\ content.crop2 = <<1, 0, 5, 4>>

\* C8: the rectangle drawn on the shadow canvas has side int(824 * 0.98) =
\* 807, strictly smaller than the SHAPE_SIZE content square, and is shifted
\* down by shadow_offset_y = 10 relative to the content rectangle.
C8_ShadowSmaller ==
    shadow.mode # "none" =>
        /\ shadow.rect[3] - shadow.rect[1] = 807
        /\ shadow.rect[4] - shadow.rect[2] = 807
        /\ shadow.rect[3] - shadow.rect[1] < SHAPE_SIZE
        /\ shadow.rect[2] = PADDING + 10

\* C9: the calls complete in the order load, mask, fit, shadow draw, blur,
\* composite, save; the blurred shadow is composited at (0,0) before the
\* content at (PADDING, PADDING), and the output is not opened before both
\* layers are on the canvas.
StageOrder ==
    <<"open", "convert", "mask", "fit", "shadow_draw", "blur", "new_canvas",
      "comp_shadow", "comp_content", "save_open", "save_write">>

C9_StageOrder ==
    LET ls == final_canvas.layers IN
    /\ IsPrefix(trace, StageOrder)
    /\ Len(ls) <= 2
    /\ Len(ls) >= 1 => /\ ls[1].name = "shadow" /\ ls[1].x = 0 /\ ls[1].y = 0
                       /\ shadow.blurred
    /\ Len(ls) = 2 => ls[2].name = "content" /\ ls[2].x = PADDING /\ ls[2].y = PADDING
    /\ ("output" \in io \/ outFile.state \in {"partial", "complete"}) => Len(ls) = 2

C9_Witness ==
    /\ outFile.state = "complete" /\ Len(final_canvas.layers) = 2
    /\ trace = StageOrder

\* C10: PADDING = (CANVAS_SIZE - SHAPE_SIZE) div 2 = 100, the content square
\* is exactly centred, and both the content placed at (PADDING, PADDING) and
\* the shadow rectangle, whose bottom edge is PADDING + SHAPE_SIZE +
\* shadow_offset_y, lie within 0..CANVAS_SIZE on both axes.
C10_OffsetsInside ==
    LET ls == final_canvas.layers IN
    /\ PADDING = 100
    /\ PADDING + SHAPE_SIZE + PADDING = CANVAS_SIZE
    /\ \A i \in 1..Len(ls) :
          /\ 0 <= ls[i].x /\ ls[i].x + ls[i].w <= final_canvas.w
          /\ 0 <= ls[i].y /\ ls[i].y + ls[i].h <= final_canvas.h
          /\ (ls[i].name = "content" =>
                /\ ls[i].x = ls[i].y
                /\ ls[i].x = final_canvas.w - (ls[i].x + ls[i].w)
                /\ ls[i].y = final_canvas.h - (ls[i].y + ls[i].h))
    /\ shadow.mode # "none" =>
          /\ 0 <= shadow.rect[1] /\ shadow.rect[1] <= shadow.rect[3]
          /\ shadow.rect[3] <= CANVAS_SIZE
          /\ 0 <= shadow.rect[2] /\ shadow.rect[2] <= shadow.rect[4]
          /\ shadow.rect[4] = PADDING + SHAPE_SIZE + shadow_offset_y
          /\ shadow.rect[4] <= CANVAS_SIZE

C10_Witness ==
    /\ Len(final_canvas.layers) = 2
    /\ final_canvas.layers[2] =
          [name |-> "content", x |-> 100, y |-> 100, w |-> 824, h |-> 824]
    /\ shadow.rect = <<100, 110, 924, 934>>
====
